---- MODULE Spec2Model ----
(***************************************************************************)
(* Epherra: the ephemeral object lifecycle engine.                         *)
(*                                                                         *)
(* Three serverless handlers share one MongoDB collection ("files") and    *)
(* one GridFS bucket ("fs"):                                               *)
(*   upload  (api/upload.go)           creates a record,                   *)
(*   view    (api/view, GET and HEAD)  evaluates expiry, gates on the      *)
(*                                     password hash, serves the bytes and *)
(*                                     records the view,                   *)
(*   cleanup (api/cleanup/cleanup.go)  purges expired records and promotes *)
(*                                     stale active ones.                  *)
(* Every call to the database is one atomic step of the handler that makes *)
(* it; what a handler computes locally after a call belongs to that step.  *)
(* Time is counted in minutes.  A byte slice is modelled by its length, a  *)
(* base64 string by its shape (number of 4-character groups, number of pad *)
(* characters, well-formedness).                                           *)
(***************************************************************************)
EXTENDS Integers, Sequences, FiniteSets, TLC

\* ------------------------------------------------------------- bounds
\* tokens (and object ids) that can be generated
MaxTokens == 2
\* views the client may still make in its current 1h window
ViewBudget == 2
\* the clock runs from StartTime to MaxTime
StartTime == 2
MaxTime == 3
\* the largest maxViews a request asks for
MaxViewsIn == 2
\* cleanup runs of the repeated-cleanup scenario
MaxRuns == 2
\* calls of GetDB by each goroutine
MaxCalls == 3

\* -------------------------------------------------- program constants
maxInlineSize == 1572864
viewLimit == 16
viewWindow == 60
uploadLimit == 5
uploadWindow == 1440
defaultTTL == 4320

\* ------------------------------------------------------------ domains
Viewers == {"v1", "v2"}
Tokens == 1 .. MaxTokens
Times == StartTime .. MaxTime
Hashes == {"", "h1", "h2"}
Methods == {"GET", "HEAD"}

\* A Go string holding base64 text: groups of 4 characters, of which the
\* last group may hold pad characters; wellformed = every character is in
\* the alphabet and the padding is canonical.
B64(groups, pad) == [groups |-> groups, pad |-> pad, wellformed |-> TRUE]
EmptyString == B64(0, 0)
Malformed == [groups |-> 1, pad |-> 0, wellformed |-> FALSE]
StringLen(s) == 4 * s.groups

\* DecodeString that returns no error
DecodeOkAlways(s) == TRUE
\* base64.StdEncoding.DecodeString: an error, or the decoded bytes (their
\* length): 3 bytes per group less one per pad character.
DecodeOk(s) == s.wellformed /\ (s.groups = 0 => s.pad = 0)
DecodeString(s) == 3 * s.groups - s.pad

\* the encodings of payloads of 1 byte and of maxInlineSize - 1,
\* maxInlineSize, maxInlineSize + 1 bytes
Enc1 == B64(1, 2)
EncBelow == B64(maxInlineSize \div 3, 1)
EncAt == B64(maxInlineSize \div 3, 0)
EncAbove == B64(maxInlineSize \div 3 + 1, 2)

\* ------------------------------------------------------ shared.FileMetadata
\* MaxViews is a *int: the empty set is nil, {n} points to n.
\* FileID is a bson.ObjectID: 0 is the zero id.
ZeroMetadata ==
  [Token |-> 0, FileType |-> "", FileData |-> EmptyString, FileID |-> 0,
   ExpiresAt |-> 0, MaxViews |-> {}, CurrentViews |-> 0, Status |-> "",
   PasswordHash |-> "", IsEncrypted |-> FALSE]

validTypes == {"application/pdf", "application/x-ipynb+json", "text/plain"}

VARIABLES
  collection,   \* the files collection: token -> document
  bucket,       \* the GridFS bucket: file id -> bytes
  now,          \* time.Now()
  rateLimits,   \* the rate limit counters of the one client: action -> counter
  issued,       \* tokens and object ids generated so far
  upload,       \* the upload handler's request in flight
  view,         \* the view handlers' requests in flight
  cleanup,      \* the cleanup handler's request in flight
  served,       \* history: per token, the full fetches answered with the payload
  sweeps,       \* history of the repeated-cleanup scenario: runs begun, their results
  faults,       \* environment: whether calls to the backend may fail
  accepted,     \* history: per token that an upload returned, the bytes uploaded
  db            \* package shared: the handles, their mutex, the calls of GetDB

vars == <<collection, bucket, now, rateLimits, issued, upload, view, cleanup,
          served, sweeps, faults, accepted, db>>

\* the outcomes of a call to the backend
Outcomes == IF faults THEN BOOLEAN ELSE {TRUE}

\* ----------------------------------------------------------- shared.GetDB
\* db.go 35-40: mongoClient, collection and bucket (0 is nil, n the client
\* made by the n-th mongo.Connect and the handles derived from it) and
\* connectionMutex (its holder, "" when free); calls: of each goroutine its
\* call of GetDB in flight and what the call returned; connects and inits
\* count the calls of mongo.Connect and the assignments of line 84
NoCall == [pc |-> "idle", n |-> 0, client |-> 0, err |-> FALSE,
           collection |-> 0, bucket |-> 0]
DBIdle == [mongoClient |-> 0, collection |-> 0, bucket |-> 0, mutex |-> "",
           connects |-> 0, inits |-> 0, calls |-> [p \in Viewers |-> NoCall]]
OtherThanDB == <<collection, bucket, now, rateLimits, issued, upload, view,
                 cleanup, served, sweeps, faults, accepted>>

\* connectionMutex.Lock() goes on without waiting
CanLockAlways(mutex) == TRUE
\* db.go 62: connectionMutex.Lock() goes on when the mutex is free
CanLock(mutex) == mutex = ""

\* db.go 63, 66, 77, 81, 89: return, and the deferred Unlock
Return(d, p, coll, bkt, err) ==
  [d EXCEPT !.mutex = "",
            !.calls[p] = [@ EXCEPT !.pc = "returned", !.client = 0, !.err = err,
                                   !.collection = coll, !.bucket = bkt]]

\* db.go 62: a goroutine calls GetDB and gets the mutex
GetDBLock(p) ==
  /\ db.calls[p].pc \in {"idle", "returned"}
  /\ db.calls[p].n < MaxCalls
  /\ CanLock(db.mutex)
  /\ db' = [db EXCEPT !.mutex = p,
                      !.calls[p] = [NoCall EXCEPT !.pc = "locked",
                                                  !.n = db.calls[p].n + 1]]
  /\ UNCHANGED OtherThanDB

\* db.go 65-67: the handles are there already
GetDBCheck(p) ==
  /\ db.calls[p].pc = "locked"
  /\ db' = IF db.mongoClient # 0
             THEN Return(db, p, db.collection, db.bucket, FALSE)
             ELSE [db EXCEPT !.calls[p].pc = "connect"]
  /\ UNCHANGED OtherThanDB

\* db.go 69-78: mongo.Connect
GetDBConnect(p) ==
  /\ db.calls[p].pc = "connect"
  /\ \E ok \in BOOLEAN :
       LET d == [db EXCEPT !.connects = @ + 1]
       IN  db' = IF ok THEN [d EXCEPT !.calls[p].pc = "ping",
                                      !.calls[p].client = d.connects]
                 ELSE Return(d, p, 0, 0, TRUE)
  /\ UNCHANGED OtherThanDB

\* db.go 80-89: client.Ping, then the handles are set and returned
GetDBPing(p) ==
  /\ db.calls[p].pc = "ping"
  /\ \E ok \in BOOLEAN :
       LET client == db.calls[p].client
           d == [db EXCEPT !.mongoClient = client, !.collection = client,
                           !.bucket = client, !.inits = @ + 1]
       IN  db' = IF ok THEN Return(d, p, d.collection, d.bucket, FALSE)
                 ELSE Return(db, p, 0, 0, TRUE)
  /\ UNCHANGED OtherThanDB

\* ------------------------------------------------------- rate limiter
\* shared.CheckRateLimit(ctx, ip, action, limit, window): one atomic
\* increment-and-compare on the counter of (ip, action).  The first request
\* after the window has elapsed resets the counter.
CheckRateLimit(counter, limit, window, t) ==
  IF t >= counter.start + window
    THEN [allowed |-> TRUE, counter |-> [count |-> 1, start |-> t]]
  ELSE IF counter.count >= limit
    THEN [allowed |-> FALSE, counter |-> counter]
  ELSE [allowed |-> TRUE,
        counter |-> [count |-> counter.count + 1, start |-> counter.start]]

\* ------------------------------------------------------------- upload
\* what the client may send: maxViews and passwordHash are optional,
\* expiresAt = 0 is the zero time.
MaxViewsChoices == {{}} \cup {{n} : n \in 0 .. MaxViewsIn}
ExpiryChoices == {0} \cup (StartTime - 1 .. MaxTime - 1)
UploadRequests(types, datas, expiries, hashes) ==
  [FileType : types, FileData : datas, MaxViews : MaxViewsChoices,
   ExpiresAt : expiries, PasswordHash : hashes]

\* StoreInline with the comparison of a threshold that is exclusive
StoreInlineBelow(fileBytes) == fileBytes < maxInlineSize

\* upload.go 140: the payload stays in the record
StoreInline(fileBytes) == fileBytes <= maxInlineSize

\* upload.go 108-135: the record as built before the payload is placed
NewMetadata(req, token, t) ==
  [Token |-> token, FileType |-> req.FileType, FileData |-> EmptyString,
   FileID |-> 0,
   ExpiresAt |-> IF req.ExpiresAt = 0 THEN t + defaultTTL ELSE req.ExpiresAt,
   MaxViews |-> IF req.MaxViews = {} THEN {1} ELSE req.MaxViews,
   CurrentViews |-> 0, Status |-> "active",
   PasswordHash |-> req.PasswordHash,
   IsEncrypted |-> req.PasswordHash # ""]

UploadIdle == [pc |-> "idle", req |-> <<>>, metadata |-> ZeroMetadata,
               fileBytes |-> 0, code |-> 0, token |-> 0]
UploadDone(code, token) == [UploadIdle EXCEPT !.pc = "done", !.code = code,
                                              !.token = token]

\* collection.InsertOne
InsertOne(coll, doc) ==
  [t \in DOMAIN coll \cup {doc.Token} |-> IF t = doc.Token THEN doc ELSE coll[t]]

\* upload.go 167-168: the token is returned for the bytes that were sent
Accept(token, fileBytes) ==
  [t \in DOMAIN accepted \cup {token} |->
     IF t = token THEN fileBytes ELSE accepted[t]]

\* upload.go 54-135: rate limit, content type, base64, token, record; the
\* request r is one of reqs (its body is read once the quota has allowed it)
UploadBegin(reqs) ==
  /\ upload.pc \in {"idle", "done"}
  /\ LET rl == CheckRateLimit(rateLimits["upload"], uploadLimit, uploadWindow, now)
     IN  /\ rateLimits' = [rateLimits EXCEPT !["upload"] = rl.counter]
         /\ IF ~rl.allowed
              THEN upload' = UploadDone(429, 0) /\ issued' = issued
              ELSE \E r \in reqs :
                     IF r.FileType \notin validTypes \/ ~DecodeOk(r.FileData)
                       THEN upload' = UploadDone(400, 0) /\ issued' = issued
                       ELSE /\ issued < MaxTokens
                            /\ issued' = issued + 1
                            /\ upload' = [pc |-> "store", req |-> r,
                                 metadata |-> NewMetadata(r, issued + 1, now),
                                 fileBytes |-> DecodeString(r.FileData),
                                 code |-> 0, token |-> issued + 1]
  /\ UNCHANGED <<collection, bucket, now, view, cleanup, served, sweeps, faults, accepted, db>>

\* upload.go 140-165: an inline payload goes into the record, which is
\* inserted; a larger one is first written to the bucket under a new id.
UploadStore ==
  /\ upload.pc = "store"
  /\ \E ok \in Outcomes :
       IF StoreInline(upload.fileBytes)
         THEN /\ bucket' = bucket
              /\ IF ok
                   THEN /\ collection' = InsertOne(collection,
                              [upload.metadata EXCEPT !.FileData = upload.req.FileData])
                        /\ upload' = UploadDone(200, upload.token)
                        /\ accepted' = Accept(upload.token, upload.fileBytes)
                   ELSE /\ collection' = collection
                        /\ upload' = UploadDone(500, 0)
                        /\ accepted' = accepted
         ELSE /\ collection' = collection
              /\ accepted' = accepted
              /\ IF ok
                   THEN /\ bucket' = [i \in DOMAIN bucket \cup {upload.token} |->
                                       IF i = upload.token THEN upload.fileBytes
                                       ELSE bucket[i]]
                        /\ upload' = [upload EXCEPT !.pc = "insert",
                                                    !.metadata.FileID = upload.token]
                   ELSE /\ bucket' = bucket
                        /\ upload' = UploadDone(500, 0)
  /\ UNCHANGED <<now, rateLimits, issued, view, cleanup, served, sweeps, faults, db>>

\* upload.go 161-168: the record of a payload held by the bucket
UploadInsert ==
  /\ upload.pc = "insert"
  /\ \E ok \in Outcomes :
       IF ok
         THEN /\ collection' = InsertOne(collection, upload.metadata)
              /\ upload' = UploadDone(200, upload.token)
              /\ accepted' = Accept(upload.token, upload.fileBytes)
         ELSE /\ collection' = collection
              /\ upload' = UploadDone(500, 0)
              /\ accepted' = accepted
  /\ UNCHANGED <<bucket, now, rateLimits, issued, view, cleanup, served, sweeps,
                 faults, db>>

\* --------------------------------------------------------------- view
\* ExpiryPolicy without lines 72-76, the comparison of expiresAt with the clock
ExpiryPolicyNoClock(metadata, t) ==
  IF metadata.Status # "active" THEN "AlreadyExpired"
  ELSE IF \E m \in metadata.MaxViews : metadata.CurrentViews >= m
    THEN "ExpiredByViewLimit"
  ELSE "Active"

\* lines 67-82: the expiry decision on the record as read, at time t
ExpiryPolicy(metadata, t) ==
  IF metadata.Status # "active" THEN "AlreadyExpired"
  ELSE IF t > metadata.ExpiresAt THEN "ExpiredByTime"
  ELSE IF \E m \in metadata.MaxViews : metadata.CurrentViews >= m
    THEN "ExpiredByViewLimit"
  ELSE "Active"

\* AccessDenied without the test for a header that is empty or missing
AccessDeniedNonEmpty(metadata, providedHash) ==
  metadata.IsEncrypted /\ providedHash # "" /\ providedHash # metadata.PasswordHash

\* lines 84-90: the password gate denies
AccessDenied(metadata, providedHash) ==
  metadata.IsEncrypted /\ (providedHash = "" \/ providedHash # metadata.PasswordHash)

\* MetadataOnly of a handler without lines 92-100
MetadataOnlyNever(method) == FALSE

\* line 92: the request is metadata-only
MetadataOnly(method) == method = "HEAD"

\* MarkExpired that counts the request as a view as well
MarkExpiredCounted(coll, token) ==
  [t \in DOMAIN coll |->
     IF t = token THEN [coll[t] EXCEPT !.Status = "expired", !.CurrentViews = @ + 1]
     ELSE coll[t]]
\* lines 73, 79: UpdateOne {token} {$set: {status: expired}}
MarkExpired(coll, token) ==
  [t \in DOMAIN coll |-> IF t = token THEN [coll[t] EXCEPT !.Status = "expired"]
                         ELSE coll[t]]

\* RecordView that expires the record one view late
RecordViewLate(coll, token, metadata) ==
  [t \in DOMAIN coll |->
     IF t # token THEN coll[t]
     ELSE IF \E m \in metadata.MaxViews : metadata.CurrentViews + 1 > m
       THEN [coll[t] EXCEPT !.CurrentViews = @ + 1, !.Status = "expired"]
     ELSE [coll[t] EXCEPT !.CurrentViews = @ + 1]]
\* RecordView that writes the status of the record as read back
RecordViewStatus(coll, token, metadata) ==
  [t \in DOMAIN coll |->
     IF t # token THEN coll[t]
     ELSE IF \E m \in metadata.MaxViews : metadata.CurrentViews + 1 >= m
       THEN [coll[t] EXCEPT !.CurrentViews = @ + 1, !.Status = "expired"]
     ELSE [coll[t] EXCEPT !.CurrentViews = @ + 1, !.Status = metadata.Status]]

\* RecordView that writes the count of the record as read plus one
RecordViewSet(coll, token, metadata) ==
  [t \in DOMAIN coll |->
     IF t # token THEN coll[t]
     ELSE IF \E m \in metadata.MaxViews : metadata.CurrentViews + 1 >= m
       THEN [coll[t] EXCEPT !.CurrentViews = metadata.CurrentViews + 1,
                            !.Status = "expired"]
     ELSE [coll[t] EXCEPT !.CurrentViews = metadata.CurrentViews + 1]]
\* lines 130-134: UpdateOne {token} {$inc: {currentViews: 1}}, with
\* {$set: {status: expired}} when the record as read is one view short
RecordView(coll, token, metadata) ==
  [t \in DOMAIN coll |->
     IF t # token THEN coll[t]
     ELSE IF \E m \in metadata.MaxViews : metadata.CurrentViews + 1 >= m
       THEN [coll[t] EXCEPT !.CurrentViews = @ + 1, !.Status = "expired"]
     ELSE [coll[t] EXCEPT !.CurrentViews = @ + 1]]

\* a view request: hash is the X-Password-Hash header once it has been read
\* (line 85); the response is the status code, the body (<<>> none, <<n>> n
\* bytes) and whether the file's Content-Type, Content-Disposition and X-*
\* headers were set
ViewIdle == [pc |-> "idle", method |-> "", token |-> 0, hash |-> "",
             metadata |-> ZeroMetadata, fileBytes |-> 0,
             code |-> 0, body |-> <<>>, headers |-> FALSE]
Respond(v, code, body, headers) ==
  [ViewIdle EXCEPT !.pc = "done", !.method = v.method, !.token = v.token,
                   !.hash = v.hash, !.code = code, !.body = body,
                   !.headers = headers]

\* ViewBegin of a handler that goes on whatever CheckRateLimit returns
ViewBeginUnchecked(p, method, token) ==
  /\ view[p].pc \in {"idle", "done"}
  /\ LET rl == CheckRateLimit(rateLimits["view"], viewLimit, viewWindow, now)
         v  == [ViewIdle EXCEPT !.method = method, !.token = token]
     IN  /\ rateLimits' = [rateLimits EXCEPT !["view"] = rl.counter]
         /\ view' = [view EXCEPT ![p] = [v EXCEPT !.pc = "find"]]
  /\ UNCHANGED <<collection, bucket, now, issued, upload, cleanup, served, sweeps,
                 faults, accepted, db>>

\* lines 50-58: the request arrives and is counted against the view quota
ViewBegin(p, method, token) ==
  /\ view[p].pc \in {"idle", "done"}
  /\ LET rl == CheckRateLimit(rateLimits["view"], viewLimit, viewWindow, now)
         v  == [ViewIdle EXCEPT !.method = method, !.token = token]
     IN  /\ rateLimits' = [rateLimits EXCEPT !["view"] = rl.counter]
         /\ view' = [view EXCEPT ![p] =
                       IF rl.allowed THEN [v EXCEPT !.pc = "find"]
                       ELSE Respond(v, 429, <<>>, FALSE)]
  /\ UNCHANGED <<collection, bucket, now, issued, upload, cleanup, served, sweeps,
                 faults, accepted, db>>

\* ViewFindOne of a handler that answers "File not found or expired" for a
\* record that is not active as well
ViewFindOneOrExpired(p) ==
  /\ view[p].pc = "find"
  /\ LET v == view[p]
     IN  \E ok \in Outcomes :
           view' = [view EXCEPT ![p] =
             IF ~ok \/ v.token \notin DOMAIN collection
               THEN Respond(v, 404, <<>>, FALSE)
             ELSE IF ExpiryPolicy(collection[v.token], now) = "AlreadyExpired"
               THEN Respond(v, 404, <<>>, FALSE)
             ELSE [v EXCEPT !.pc = "check", !.metadata = collection[v.token]]]
  /\ UNCHANGED <<collection, bucket, now, rateLimits, issued, upload, cleanup,
                 served, sweeps, faults, accepted, db>>

\* lines 60-70: FindOne {token}; any error of FindOne (no such token, or the
\* call failed) is answered 404, a record not active 410
ViewFindOne(p) ==
  /\ view[p].pc = "find"
  /\ LET v == view[p]
     IN  \E ok \in Outcomes :
           view' = [view EXCEPT ![p] =
             IF ~ok \/ v.token \notin DOMAIN collection
               THEN Respond(v, 404, <<>>, FALSE)
             ELSE IF ExpiryPolicy(collection[v.token], now) = "AlreadyExpired"
               THEN Respond(v, 410, <<>>, FALSE)
             ELSE [v EXCEPT !.pc = "check", !.metadata = collection[v.token]]]
  /\ UNCHANGED <<collection, bucket, now, rateLimits, issued, upload, cleanup,
                 served, sweeps, faults, accepted, db>>

\* lines 72-109: time.Now(), the lazy markExpired, the password gate (which
\* reads the header of the request, providedHash), the metadata-only answer,
\* and the decoding of an inline payload
ViewCheck(p, providedHash) ==
  /\ view[p].pc = "check"
  /\ LET v == view[p]
         verdict == ExpiryPolicy(v.metadata, now)
         w == [v EXCEPT !.hash = providedHash]
     IN  \E ok \in Outcomes :
           IF verdict # "Active"
             THEN /\ providedHash = ""
                  /\ collection' = IF ok THEN MarkExpired(collection, v.token)
                                   ELSE collection
                  /\ view' = [view EXCEPT ![p] = Respond(v, 410, <<>>, FALSE)]
           ELSE /\ collection' = collection
                /\ ok
                /\ view' = [view EXCEPT ![p] =
                     IF AccessDenied(v.metadata, providedHash)
                       THEN Respond(w, 401, <<>>, FALSE)
                     ELSE IF MetadataOnly(v.method)
                       THEN Respond(w, 200, <<>>, TRUE)
                     ELSE IF v.metadata.FileData # EmptyString
                       THEN IF DecodeOk(v.metadata.FileData)
                              THEN [w EXCEPT !.pc = "update",
                                     !.fileBytes = DecodeString(v.metadata.FileData)]
                              ELSE Respond(w, 500, <<>>, FALSE)
                     ELSE [w EXCEPT !.pc = "download"]]
  /\ UNCHANGED <<bucket, now, rateLimits, issued, upload, cleanup, served, sweeps,
                 faults, accepted, db>>

\* lines 111-123: the payload is read from the bucket
ViewDownload(p) ==
  /\ view[p].pc = "download"
  /\ LET v == view[p]
     IN  \E ok \in Outcomes :
           view' = [view EXCEPT ![p] =
             IF ok /\ v.metadata.FileID \in DOMAIN bucket
               THEN [v EXCEPT !.pc = "update", !.fileBytes = bucket[v.metadata.FileID]]
             ELSE Respond(v, 500, <<>>, FALSE)]
  /\ UNCHANGED <<collection, bucket, now, rateLimits, issued, upload, cleanup,
                 served, sweeps, faults, accepted, db>>

\* lines 130-146: the view is recorded (the update's result is not looked
\* at) and the payload is sent
ViewUpdate(p) ==
  /\ view[p].pc = "update"
  /\ LET v == view[p]
     IN  /\ \E ok \in Outcomes :
              collection' = IF ok THEN RecordView(collection, v.token, v.metadata)
                            ELSE collection
         /\ view' = [view EXCEPT ![p] = Respond(v, 200, <<v.fileBytes>>, TRUE)]
         /\ served' = [served EXCEPT ![v.token] = @ + 1]
  /\ UNCHANGED <<bucket, now, rateLimits, issued, upload, cleanup, sweeps, faults, accepted, db>>

\* -------------------------------------------------------------- clock
Tick ==
  /\ now < MaxTime
  /\ now' = now + 1
  /\ UNCHANGED <<collection, bucket, rateLimits, issued, upload, view, cleanup,
                 served, sweeps, faults, accepted, db>>

\* ------------------------------------------------------------ cleanup
\* the documents of a collection whose tokens are in matched (the tokens of
\* the documents that match a filter), in token order (the order of insertion)
RECURSIVE FindFrom(_, _, _)
FindFrom(coll, matched, t) ==
  IF t > MaxTokens THEN <<>>
  ELSE IF t \in matched
    THEN <<coll[t]>> \o FindFrom(coll, matched, t + 1)
  ELSE FindFrom(coll, matched, t + 1)
Find(coll, matched) == FindFrom(coll, matched, 1)

\* a filter that every record matches
IsExpiredOrNot(doc) == TRUE
\* the filter {status: expired} of cleanup.go 34 and 57
IsExpired(doc) == doc.Status = "expired"
Expired(coll) == {u \in DOMAIN coll : IsExpired(coll[u])}
\* the filter of cleanup.go 64-67 at time t
StaleByTime(doc, t) == doc.Status = "active" /\ doc.ExpiresAt < t
\* StaleByViews with $gt in the place of $gte
StaleByViewsOver(doc) ==
  /\ doc.Status = "active"
  /\ doc.MaxViews # {}
  /\ \E m \in doc.MaxViews : doc.CurrentViews > m
\* the filter of cleanup.go 71-75
StaleByViews(doc) ==
  /\ doc.Status = "active"
  /\ doc.MaxViews # {}
  /\ \E m \in doc.MaxViews : doc.CurrentViews >= m

\* DeleteMany whose filter takes the records past their expiresAt as well
DeleteExpiredOrPast(coll) ==
  [t \in {u \in DOMAIN coll :
            ~(IsExpired(coll[u]) \/ coll[u].ExpiresAt < now)} |-> coll[t]]
\* DeleteMany that leaves the records where they are
DeleteNone(coll) == coll

\* collection.DeleteMany {status: expired}
DeleteExpired(coll) == [t \in DOMAIN coll \ Expired(coll) |-> coll[t]]
\* collection.UpdateMany filter {$set: {status: expired}}
PromoteByTime(coll, t) ==
  [u \in DOMAIN coll |-> IF StaleByTime(coll[u], t)
                           THEN [coll[u] EXCEPT !.Status = "expired"] ELSE coll[u]]
PromoteByViews(coll) ==
  [u \in DOMAIN coll |-> IF StaleByViews(coll[u])
                           THEN [coll[u] EXCEPT !.Status = "expired"] ELSE coll[u]]
\* bucket.Delete(id) on a bucket that holds id
DeleteBlob(bkt, id) == [i \in DOMAIN bkt \ {id} |-> bkt[i]]

\* a cleanup request: expiredFiles is what is left of the slice to loop over
\* (of each record, the two fields the loop reads), now the time.Now() of
\* line 63
CleanupIdle == [pc |-> "idle", code |-> 0, expiredFiles |-> <<>>, now |-> 0,
                gridfsDeletedCount |-> 0, inlineDeletedCount |-> 0,
                metadataDeletedCount |-> 0]
Locator(doc) == [FileID |-> doc.FileID, FileData |-> doc.FileData]
RECURSIVE Locators(_)
Locators(docs) ==
  IF docs = <<>> THEN <<>> ELSE <<Locator(Head(docs))>> \o Locators(Tail(docs))

\* cleanup.go 16-43: the shared secret, then Find {status: expired}
CleanupStart(authorized) ==
  /\ cleanup.pc \in {"idle", "done"}
  /\ \E ok \in Outcomes :
       cleanup' =
         IF ~authorized THEN [CleanupIdle EXCEPT !.pc = "done", !.code = 401]
         ELSE LET found == IF ok THEN Locators(Find(collection, Expired(collection))) ELSE <<>>
              IN  [CleanupIdle EXCEPT !.pc = IF found = <<>> THEN "delete" ELSE "purge",
                                      !.expiredFiles = found]
  /\ UNCHANGED <<collection, bucket, now, rateLimits, issued, upload, view, served,
                 faults, accepted, db>>

\* cleanup.go 44-53: one turn of the loop over the expired records
CleanupPurge ==
  /\ cleanup.pc = "purge"
  /\ LET file == Head(cleanup.expiredFiles)
         rest == Tail(cleanup.expiredFiles)
         next == [cleanup EXCEPT !.expiredFiles = rest,
                                 !.pc = IF rest = <<>> THEN "delete" ELSE "purge"]
     IN  \E ok \in Outcomes :
           IF file.FileID # 0
             THEN IF ok /\ file.FileID \in DOMAIN bucket
                    THEN /\ bucket' = DeleteBlob(bucket, file.FileID)
                         /\ cleanup' = [next EXCEPT !.gridfsDeletedCount = @ + 1]
                    ELSE /\ bucket' = bucket
                         /\ cleanup' = next
             ELSE /\ ok
                  /\ bucket' = bucket
                  /\ cleanup' = IF file.FileData # EmptyString
                                  THEN [next EXCEPT !.inlineDeletedCount = @ + 1]
                                  ELSE next
  /\ UNCHANGED <<collection, now, rateLimits, issued, upload, view, served, sweeps,
                 faults, accepted, db>>

\* cleanup.go 57-63: DeleteMany {status: expired}, then time.Now()
CleanupDeleteMany ==
  /\ cleanup.pc = "delete"
  /\ \E ok \in Outcomes :
       /\ collection' = IF ok THEN DeleteExpired(collection) ELSE collection
       /\ cleanup' = [cleanup EXCEPT
            !.pc = "promoteTime", !.now = now,
            !.metadataDeletedCount =
               IF ok THEN Cardinality(DOMAIN collection)
                          - Cardinality(DOMAIN DeleteExpired(collection))
               ELSE 0]
  /\ UNCHANGED <<bucket, now, rateLimits, issued, upload, view, served, sweeps,
                 faults, accepted, db>>

\* the number of records an UpdateMany modifies, from those its filter matches
Matching(matched) == Cardinality(matched)
\* the history of a run of the repeated-cleanup scenario
Promoted(n) == IF sweeps.begun = 0 THEN sweeps
               ELSE [sweeps EXCEPT !.promoted = @ + n]

\* cleanup.go 64-69: the active records whose expiresAt is before line 63's now
CleanupPromoteTime ==
  /\ cleanup.pc = "promoteTime"
  /\ \E ok \in Outcomes :
       LET stale == {u \in DOMAIN collection :
                       StaleByTime(collection[u], cleanup.now)}
       IN  /\ collection' = IF ok THEN PromoteByTime(collection, cleanup.now)
                            ELSE collection
           /\ sweeps' = Promoted(IF ok THEN Matching(stale) ELSE 0)
  /\ cleanup' = [cleanup EXCEPT !.pc = "promoteViews", !.now = 0]
  /\ UNCHANGED <<bucket, now, rateLimits, issued, upload, view, served, faults, accepted, db>>

\* cleanup.go 71-96: the active records at their view limit, then the answer
CleanupPromoteViews ==
  /\ cleanup.pc = "promoteViews"
  /\ cleanup' = [cleanup EXCEPT !.pc = "done", !.code = 200]
  /\ \E ok \in Outcomes :
       /\ collection' = IF ok THEN PromoteByViews(collection) ELSE collection
       /\ LET stale == {u \in DOMAIN collection : StaleByViews(collection[u])}
              h == Promoted(IF ok THEN Matching(stale) ELSE 0)
          IN  sweeps' = IF sweeps.begun = 0 THEN sweeps
                        ELSE [h EXCEPT !.promoted = 0,
                                !.log = Append(@,
                                   [metadataDeleted |-> cleanup.metadataDeletedCount,
                                    gridfsFilesDeleted |-> cleanup.gridfsDeletedCount,
                                    inlineFilesDeleted |-> cleanup.inlineDeletedCount,
                                    promoted |-> h.promoted])]
  /\ UNCHANGED <<bucket, now, rateLimits, issued, upload, view, served, faults, accepted, db>>

\* a cleanup request of the cron job, or of anyone else
CleanupBegin ==
  /\ \E authorized \in BOOLEAN : CleanupStart(authorized)
  /\ UNCHANGED sweeps

\* a run of the repeated-cleanup scenario
CleanupRun ==
  /\ sweeps.begun < MaxRuns
  /\ CleanupStart(TRUE)
  /\ sweeps' = [sweeps EXCEPT !.begun = @ + 1]

\* ------------------------------------------------------ specifications
\* the handlers at rest; the client has used up all but `uploads` uploads
\* and `views` views of its current windows
Resting(uploads, views) ==
  /\ rateLimits = [a \in {"upload", "view"} |->
       IF a = "upload" THEN [count |-> uploadLimit - uploads, start |-> StartTime]
       ELSE [count |-> viewLimit - views, start |-> StartTime]]
  /\ upload = UploadIdle
  /\ view = [p \in Viewers |-> ViewIdle]
  /\ cleanup = CleanupIdle
  /\ served = [t \in Tokens |-> 0]
  /\ sweeps = [begun |-> 0, promoted |-> 0, log |-> <<>>]
  /\ db = DBIdle
\* ... and every call to the backend succeeds
AtRest(uploads, views) == Resting(uploads, views) /\ faults = FALSE

\* the state after deployment: both stores empty
InitStores(uploads, views) ==
  /\ collection = <<>>
  /\ bucket = <<>>
  /\ now = StartTime
  /\ issued = 0
  /\ accepted = <<>>
  /\ AtRest(uploads, views)

\* the requests of the clients of one shared link
LinkRequests ==
  UploadRequests({"text/plain"}, {Enc1, EncAbove}, ExpiryChoices, {"", "h1"})

UploadNext(reqs) ==
  \/ UploadBegin(reqs)
  \/ UploadStore
  \/ UploadInsert

\* the link that is shared is the first token generated
ViewNext(p) ==
  \/ \E m \in Methods : ViewBegin(p, m, 1)
  \/ ViewFindOne(p)
  \/ \E h \in Hashes : ViewCheck(p, h)
  \/ ViewDownload(p)
  \/ ViewUpdate(p)

CleanupNext ==
  \/ CleanupBegin
  \/ CleanupPurge
  \/ CleanupDeleteMany
  \/ CleanupPromoteTime
  \/ CleanupPromoteViews

\* Spec: one upload, concurrent views of its link, the clock
Init == InitStores(1, ViewBudget)
Next == UploadNext(LinkRequests) \/ (\E p \in Viewers : ViewNext(p)) \/ Tick
Spec == Init /\ [][Next]_vars

\* SpecLife: one upload, the views of one client at a time, cleanups running
\* beside them, the clock
NextLife == UploadNext(LinkRequests) \/ ViewNext("v1") \/ CleanupNext \/ Tick
SpecLife == Init /\ [][NextLife]_vars

\* SpecSeq: one upload and views one after the other, as many as exhaust the
\* largest view limit
InitSeq == InitStores(1, MaxViewsIn + 1)
NextSeq == UploadNext(LinkRequests) \/ ViewNext("v1") \/ Tick
SpecSeq == InitSeq /\ [][NextSeq]_vars

\* SpecUpload: uploads of every kind of request, up to the quota
AnyRequests ==
  UploadRequests({"text/plain", "application/zip"},
                 {EmptyString, Enc1, EncBelow, EncAt, EncAbove, Malformed},
                 {0}, {""})
InitUpload == InitStores(MaxTokens, ViewBudget)
NextUpload == UploadNext(AnyRequests)
SpecUpload == InitUpload /\ [][NextUpload]_vars

\* SpecRace: a record that has just been uploaded with a view limit of at
\* least one, inline or in the bucket, and one GET of its link by each client,
\* all in flight together
Uploaded(req, token, t) ==
  LET metadata == NewMetadata(req, token, t)
  IN  IF StoreInline(DecodeString(req.FileData))
        THEN [metadata EXCEPT !.FileData = req.FileData]
        ELSE [metadata EXCEPT !.FileID = token]
InitRace ==
  /\ \E req \in UploadRequests({"text/plain"}, {Enc1, EncAbove}, {0}, {""}) :
       /\ \E m \in req.MaxViews : m >= 1
       /\ collection = InsertOne(<<>>, Uploaded(req, 1, StartTime))
       /\ bucket = [i \in {j \in {1} : ~StoreInline(DecodeString(req.FileData))} |->
                      DecodeString(req.FileData)]
       /\ accepted = [t \in {1} |-> DecodeString(req.FileData)]
  /\ now = StartTime
  /\ issued = 1
  /\ AtRest(0, Cardinality(Viewers))
ViewOnce(p) ==
  \/ view[p].pc = "idle" /\ ViewBegin(p, "GET", 1)
  \/ ViewFindOne(p)
  \/ ViewCheck(p, "")
  \/ ViewDownload(p)
  \/ ViewUpdate(p)
NextRace == \E p \in Viewers : ViewOnce(p)
SpecRace == InitRace /\ [][NextRace]_vars

\* SpecSweep: cleanup runs one after the other, with nothing between them,
\* on the stores that uploads, views and earlier cleanups can leave behind:
\* of each token no record, or a record that is inline or in the bucket,
\* past its expiresAt or not, unseen or at its view limit, active or (when
\* one of the two limits is reached) expired
SweepShapes ==
  {sh \in [inline : BOOLEAN, ExpiresAt : {StartTime - 1, StartTime + defaultTTL},
           CurrentViews : {0, MaxViewsIn}, Status : {"active", "expired"}] :
     sh.Status = "expired" =>
       (sh.ExpiresAt < StartTime \/ sh.CurrentViews >= MaxViewsIn)}
SweepRecord(token, sh) ==
  [ZeroMetadata EXCEPT !.Token = token, !.FileType = "text/plain",
     !.FileData = IF sh.inline THEN Enc1 ELSE EmptyString,
     !.FileID = IF sh.inline THEN 0 ELSE token,
     !.ExpiresAt = sh.ExpiresAt, !.MaxViews = {MaxViewsIn},
     !.CurrentViews = sh.CurrentViews, !.Status = sh.Status]
InitSweep ==
  /\ \E S \in SUBSET Tokens : \E shape \in [S -> SweepShapes] :
       /\ collection = [t \in S |-> SweepRecord(t, shape[t])]
       /\ bucket = [i \in {t \in S : ~shape[t].inline} |->
                      DecodeString(EncAbove)]
       /\ accepted = [t \in S |-> IF shape[t].inline THEN DecodeString(Enc1)
                                  ELSE DecodeString(EncAbove)]
  /\ now \in Times
  /\ issued = MaxTokens
  /\ AtRest(0, 0)
NextSweep ==
  \/ CleanupRun
  \/ CleanupPurge
  \/ CleanupDeleteMany
  \/ CleanupPromoteTime
  \/ CleanupPromoteViews
SpecSweep == InitSweep /\ [][NextSweep]_vars

\* SpecTrip: one upload of a payload of any length, then the requests of
\* one client for it
TripRequests ==
  UploadRequests({"text/plain"}, {EmptyString, Enc1, EncBelow, EncAt, EncAbove},
                 {0}, {"", "h1"})
NextTrip == UploadNext(TripRequests) \/ ViewNext("v1")
SpecTrip == Init /\ [][NextTrip]_vars

\* SpecRate: the requests of one client with its quotas unused: views of a
\* token that no upload returned and uploads of a type that is not allowed,
\* made at the start, and a minute before the end and at the end of the first
\* view window and of the first upload window
RateTimes == {StartTime + viewWindow - 1, StartTime + viewWindow,
              StartTime + uploadWindow - 1, StartTime + uploadWindow}
Wait ==
  /\ \E t \in RateTimes : t > now /\ now' = t
  /\ UNCHANGED <<collection, bucket, rateLimits, issued, upload, view, cleanup,
                 served, sweeps, faults, accepted, db>>
InitRate == InitStores(uploadLimit, viewLimit)
NextRate ==
  \/ UploadBegin(UploadRequests({"application/zip"}, {Enc1}, {0}, {""}))
  \/ ViewBegin("v1", "GET", 1)
  \/ ViewFindOne("v1")
  \/ Wait
SpecRate == InitRate /\ [][NextRate]_vars

\* SpecLive: SpecLife where cleanups keep being run: the cron job goes on
\* calling the handler with its secret, and a cleanup that has begun goes on
\* to its answer
Sweep ==
  \/ CleanupStart(TRUE) /\ UNCHANGED sweeps
  \/ CleanupPurge
  \/ CleanupDeleteMany
  \/ CleanupPromoteTime
  \/ CleanupPromoteViews
SpecLive == Init /\ [][NextLife]_vars /\ WF_vars(Sweep)

\* SpecFail: uploads and the views of the first link by one client, where
\* every call to MongoDB (other than those of the rate limiter) may fail:
\* the stores start empty and the handlers at rest; the uploads leave the
\* view limit to its default, and their expiresAt is the default or past
FailRequests ==
  {r \in UploadRequests({"text/plain"}, {Enc1, EncAbove}, {0, StartTime - 1},
                        {"", "h1"}) : r.MaxViews = {}}
InitFail ==
  /\ collection = <<>>
  /\ bucket = <<>>
  /\ now = StartTime
  /\ issued = 0
  /\ accepted = <<>>
  /\ Resting(MaxTokens, ViewBudget)
  /\ faults = TRUE
NextFail == UploadNext(FailRequests) \/ ViewNext("v1")
SpecFail == InitFail /\ [][NextFail]_vars

\* SpecOrphan: uploads whose expiresAt is the default or already past, and
\* cleanups running beside them, where every call to MongoDB may fail
OrphanRequests ==
  UploadRequests({"text/plain"}, {Enc1, EncAbove}, {0, StartTime - 1}, {""})
NextOrphan == UploadNext(OrphanRequests) \/ CleanupNext
SpecOrphan == InitFail /\ [][NextOrphan]_vars

\* SpecDB: the goroutines of one process call GetDB, each several times,
\* and mongo.Connect and client.Ping may fail
NextDB ==
  \E p \in Viewers :
    \/ GetDBLock(p)
    \/ GetDBCheck(p)
    \/ GetDBConnect(p)
    \/ GetDBPing(p)
SpecDB == Init /\ [][NextDB]_vars

\* ----------------------------------------------------------- properties
Min(a, b) == IF a <= b THEN a ELSE b
\* the requests that have arrived; none is in flight
Arrived == Cardinality({p \in Viewers : view[p].pc # "idle"})
Quiescent == \A p \in Viewers : view[p].pc \in {"idle", "done"}
\* the step is one of p's request
StepOf(p) == view'[p] # view[p]
\* the step ends p's request after it was admitted by the rate limiter
Answers(p) == view[p].pc \notin {"idle", "done"} /\ view'[p].pc = "done"

\* C1 (as stated; SpecRace): of N concurrent GETs of a record with maxViews
\* = M, never more than M are answered with the payload and currentViews
\* never exceeds M; when all N have been answered, exactly min(N, M) got the
\* payload and currentViews is min(N, M).
C1_Original ==
  \A t \in DOMAIN collection : \A m \in collection[t].MaxViews :
    /\ served[t] <= m
    /\ collection[t].CurrentViews <= m
    /\ (Quiescent /\ Arrived = Cardinality(Viewers)) =>
         /\ served[t] = Min(Arrived, m)
         /\ collection[t].CurrentViews = Min(Arrived, m)

\* C2 (SpecLife): status is monotonic.  A step that adds a record adds it
\* active; a record whose stored status is expired is, after any step of
\* upload, view or cleanup, either still expired or deleted; the only record
\* a step adds is the one of the upload in flight, under its new token.
C2_StatusMonotonic ==
  /\ [](\A t \in DOMAIN collection : collection[t].Status \in {"active", "expired"})
  /\ [][\A t \in DOMAIN collection' :
          IF t \in DOMAIN collection
            THEN collection[t].Status = "expired" => collection'[t].Status = "expired"
            ELSE collection'[t].Status = "active" /\ t = upload.token]_vars
\* an expired record has been through a view (answered Gone) and through a
\* complete cleanup, and is still expired
C2_Witness ==
  /\ 1 \in DOMAIN collection
  /\ collection[1].Status = "expired"
  /\ view["v1"].pc = "done" /\ view["v1"].code = 410
  /\ cleanup.pc = "done" /\ cleanup.code = 200

\* C3 (as stated; SpecRace, where no cleanup runs and the clock stands
\* still): whenever a fetch is answered with the payload, the record as
\* stored at that moment is active, not past its expiresAt, and below its
\* view limit.
C3_Original ==
  [][\A t \in Tokens : served'[t] > served[t] =>
       /\ t \in DOMAIN collection
       /\ collection[t].Status = "active"
       /\ ~(collection[t].ExpiresAt < now)
       /\ \A m \in collection[t].MaxViews : collection[t].CurrentViews < m
    ]_vars

C5_HeadLeavesViews ==
  [][\A p \in Viewers : (StepOf(p) /\ view'[p].method = "HEAD") =>
       /\ DOMAIN collection' = DOMAIN collection
       /\ \A t \in DOMAIN collection :
            collection'[t].CurrentViews = collection[t].CurrentViews
       /\ served' = served
    ]_vars
\* a HEAD request was answered 200 with the headers and no body, on a record
\* that a GET had been counted on before
C5_Witness ==
  \E p \in Viewers :
    /\ view[p].pc = "done" /\ view[p].method = "HEAD" /\ view[p].code = 200
    /\ view[p].headers /\ view[p].body = <<>>
    /\ 1 \in DOMAIN collection
    /\ collection[1].CurrentViews = 1
    /\ collection[1].Status = "active"

\* C6 (as stated; SpecLife): the step that answers a GET with the payload
\* increases the stored currentViews of the record by exactly one.
C6_Original ==
  [][\A p \in Viewers :
       (Answers(p) /\ view'[p].method = "GET" /\ view'[p].code = 200) =>
          /\ view[p].token \in DOMAIN collection
          /\ view[p].token \in DOMAIN collection'
          /\ collection'[view[p].token].CurrentViews
               = collection[view[p].token].CurrentViews + 1
    ]_vars

\* the supplied hash is empty, missing or different from the stored one
Mismatch(metadata, hash) == hash = "" \/ hash # metadata.PasswordHash

\* C7 (Spec): at the password gate, which a request reaches when its record
\* was found and is not expired, a request for an encrypted record whose
\* X-Password-Hash is empty, missing or different from the stored hash is
\* answered 401 with no body and none of the file's headers; one with exactly
\* the stored hash is not answered 401; one for a record that is not
\* encrypted is not answered 401, whatever hash it carries.  No request
\* with a mismatching hash for an encrypted record ever gets past the gate,
\* and 401 is answered to such requests only.
C7_PasswordGate ==
  /\ [](\A p \in Viewers :
          view[p].token \in DOMAIN collection =>
            LET v == view[p]
                stored == collection[v.token]
                denied == stored.IsEncrypted /\ Mismatch(stored, v.hash)
            IN  /\ denied => /\ v.pc \notin {"download", "update"}
                             /\ v.code \notin {200, 500}
                             /\ v.body = <<>>
                             /\ ~v.headers
                /\ v.code = 401 => denied)
  /\ [][\A p \in Viewers :
          (/\ view[p].pc = "check"
           /\ StepOf(p)
           /\ ExpiryPolicy(view[p].metadata, now) = "Active") =>
             LET metadata == view[p].metadata
                 answer == view'[p]
             IN  IF metadata.IsEncrypted /\ Mismatch(metadata, answer.hash)
                   THEN /\ answer.pc = "done" /\ answer.code = 401
                        /\ answer.body = <<>> /\ ~answer.headers
                        /\ collection' = collection
                   ELSE answer.code # 401
       ]_vars
\* of two requests for an encrypted record, one with a wrong hash was
\* answered 401 and the other, with the stored hash, was answered 200
C7_Witness ==
  \E p, q \in Viewers :
    /\ 1 \in DOMAIN collection
    /\ collection[1].IsEncrypted
    /\ view[p].pc = "done" /\ view[p].code = 401
    /\ view[p].hash \notin {"", collection[1].PasswordHash}
    /\ view[q].pc = "done" /\ view[q].code = 200
    /\ view[q].hash = collection[1].PasswordHash

\* C8 (SpecSeq: requests one at a time, no cleanup): for a record with
\* maxViews = M that is not past its expiresAt, a GET that passes the gate
\* while fewer than M views are recorded is answered with the payload and
\* recorded, and the record is expired exactly when that view is the M-th; a
\* GET when M views are recorded is answered 410 with no body and recorded
\* nowhere.  So the payload is served exactly as often as views are recorded,
\* at most M times, and the record is expired as soon as M >= 1 views are
\* recorded.
C8_SequentialViews ==
  /\ [](\A t \in DOMAIN collection : \A m \in collection[t].MaxViews :
          /\ served[t] = collection[t].CurrentViews
          /\ served[t] <= m
          /\ (m >= 1 /\ collection[t].CurrentViews >= m) =>
                collection[t].Status = "expired")
  /\ [][\A t \in DOMAIN collection : \A m \in collection[t].MaxViews :
          LET v == view["v1"]
              answer == view'["v1"]
              stored == collection[t]
          IN  (/\ Answers("v1") /\ v.token = t /\ v.method = "GET"
               /\ answer.code # 401
               /\ ~(stored.ExpiresAt < now)) =>
                 IF stored.CurrentViews < m
                   THEN /\ answer.code = 200
                        /\ answer.body # <<>>
                        /\ collection'[t].CurrentViews = stored.CurrentViews + 1
                        /\ collection'[t].Status =
                             IF stored.CurrentViews + 1 = m THEN "expired"
                             ELSE "active"
                   ELSE /\ answer.code = 410
                        /\ answer.body = <<>>
                        /\ collection'[t].CurrentViews = stored.CurrentViews
                        /\ collection'[t].Status = "expired"
       ]_vars
\* a record with the largest view limit, before its expiresAt, has been
\* served that many times and the next GET was answered 410
C8_Witness ==
  /\ 1 \in DOMAIN collection
  /\ collection[1].MaxViews = {MaxViewsIn}
  /\ collection[1].CurrentViews = MaxViewsIn
  /\ served[1] = MaxViewsIn
  /\ collection[1].Status = "expired"
  /\ ~(collection[1].ExpiresAt < now)
  /\ view["v1"].pc = "done" /\ view["v1"].method = "GET"
  /\ view["v1"].code = 410

\* C9 (Spec, calls to the database succeeding): a request that has read its
\* record as active and finds the record's expiresAt before now is answered
\* 410 with no body and none of the file's headers by that very step,
\* whatever the record's view count; the step changes the currentViews of no
\* record, serves nothing, and leaves the stored record expired.
C9_ExpiredByTime ==
  [][\A p \in Viewers :
       (/\ view[p].pc = "check"
        /\ StepOf(p)
        /\ view[p].metadata.Status = "active"
        /\ view[p].metadata.ExpiresAt < now) =>
          /\ view'[p].pc = "done" /\ view'[p].code = 410
          /\ view'[p].body = <<>> /\ ~view'[p].headers
          /\ served' = served
          /\ DOMAIN collection' = DOMAIN collection
          /\ \A t \in DOMAIN collection :
               collection'[t].CurrentViews = collection[t].CurrentViews
          /\ view[p].token \in DOMAIN collection =>
               collection'[view[p].token].Status = "expired"
    ]_vars
\* a GET of a record never viewed, with views to spare, past its expiresAt,
\* was answered 410 and the record is expired
C9_Witness ==
  \E p \in Viewers :
    /\ view[p].pc = "done" /\ view[p].method = "GET" /\ view[p].code = 410
    /\ 1 \in DOMAIN collection
    /\ collection[1].ExpiresAt < now
    /\ collection[1].CurrentViews = 0
    /\ collection[1].MaxViews = {MaxViewsIn}
    /\ collection[1].Status = "expired"
    /\ served[1] = 0

\* the record that the upload in flight adds in this step, if it adds one
Created == upload'.pc = "done" /\ upload'.code = 200 /\ upload.pc \in {"store", "insert"}
\* the placement of the record of a payload of fileBytes bytes sent as data
PlacedInline(doc, data) ==
  /\ doc.FileData = data
  /\ doc.FileID = 0
  /\ bucket' = bucket
PlacedInBucket(doc, fileBytes) ==
  /\ doc.FileData = EmptyString
  /\ doc.FileID # 0
  /\ doc.FileID \in DOMAIN bucket'
  /\ bucket'[doc.FileID] = fileBytes

\* C10 (as stated; SpecUpload): the record of a payload whose decoded length
\* is strictly below T = 1572864 holds the payload inline; that of a payload
\* of length T or more holds only the id of a blob that holds the payload.
C10_Original ==
  [][Created =>
       LET doc == collection'[upload'.token]
           fileBytes == DecodeString(upload.req.FileData)
       IN  IF fileBytes < maxInlineSize
             THEN PlacedInline(doc, upload.req.FileData)
             ELSE PlacedInBucket(doc, fileBytes)
    ]_vars
\* C10 (amended; SpecUpload): the placement depends on the decoded length
\* alone: the record of a payload of at most T = 1572864 bytes (in
\* particular exactly T) holds the payload inline, and that of a payload of
\* more than T bytes holds only the id of a blob that holds the payload.
C10_InlineUpToThreshold ==
  [][Created =>
       LET doc == collection'[upload'.token]
           fileBytes == DecodeString(upload.req.FileData)
       IN  IF fileBytes <= maxInlineSize
             THEN PlacedInline(doc, upload.req.FileData)
             ELSE PlacedInBucket(doc, fileBytes)
    ]_vars
\* a payload of exactly T bytes is stored inline and one of T + 1 bytes in
\* the bucket
C10_Witness ==
  \E t, u \in DOMAIN collection :
    /\ DecodeString(collection[t].FileData) = maxInlineSize
    /\ collection[t].FileID = 0
    /\ collection[u].FileData = EmptyString
    /\ collection[u].FileID \in DOMAIN bucket
    /\ bucket[collection[u].FileID] = maxInlineSize + 1

\* the record of token t is stored, active, not past its expiresAt and below
\* its view limit
Live(t) ==
  /\ t \in DOMAIN collection
  /\ collection[t].Status = "active"
  /\ ~(collection[t].ExpiresAt < now)
  /\ \A m \in collection[t].MaxViews : collection[t].CurrentViews < m

\* C11 (as stated; SpecTrip): a GET for a token that an upload returned,
\* whose record is not expired (by status, time or view limit), that is not
\* rate limited and passes the password gate, is answered 200 with exactly
\* the bytes that were uploaded, of any length from zero up, inline or from
\* the bucket.
C11_Original ==
  [][\A t \in DOMAIN accepted :
       (/\ Answers("v1")
        /\ view["v1"].token = t /\ view["v1"].method = "GET"
        /\ Live(t)
        /\ view'["v1"].code # 401) =>
          /\ view'["v1"].code = 200
          /\ view'["v1"].body = <<accepted[t]>>
    ]_vars

\* the answer of the rate limiter at a request counted by counter c at time
\* t, for a limit of K requests per window of W minutes: the answer is seen
\* in rejected, the counter after the request is c2
Limited(c, c2, rejected, K, W) ==
  IF now < c.start + W
    THEN IF c.count < K
           THEN ~rejected /\ c2 = [count |-> c.count + 1, start |-> c.start]
           ELSE rejected /\ c2 = c
    ELSE ~rejected /\ c2 = [count |-> 1, start |-> now]

\* C12 (SpecRate): with at most 16 views per 60 minutes and 5 uploads per
\* 1440 minutes, a request within the window of its counter is let through
\* and counted when fewer than the limit have been counted, and is answered
\* 429 and not counted when the limit has been reached; a request at or after
\* the end of the window is let through and starts a new window with a count
\* of one.  The two kinds of request are counted apart, and a view that is
\* let through is answered on its merits (here 404).
C12_RateLimit ==
  /\ [](rateLimits["view"].count <= 16 /\ rateLimits["upload"].count <= 5)
  /\ [][/\ (view["v1"].pc \in {"idle", "done"} /\ StepOf("v1")) =>
             /\ Limited(rateLimits["view"], rateLimits'["view"],
                        view'["v1"].pc = "done" /\ view'["v1"].code = 429, 16, 60)
             /\ rateLimits'["upload"] = rateLimits["upload"]
        /\ (upload.pc \in {"idle", "done"} /\ upload' # upload) =>
             /\ Limited(rateLimits["upload"], rateLimits'["upload"],
                        upload'.code = 429, 5, 1440)
             /\ rateLimits'["view"] = rateLimits["view"]
        /\ (view["v1"].pc = "find" /\ StepOf("v1")) => view'["v1"].code = 404
       ]_vars
\* the sixth upload of a window has been answered 429 and, in a view
\* window begun later, the seventeenth view
C12_Witness ==
  /\ upload.pc = "done" /\ upload.code = 429
  /\ rateLimits["upload"].count = 5
  /\ view["v1"].pc = "done" /\ view["v1"].code = 429
  /\ rateLimits["view"].count = 16
  /\ rateLimits["view"].start >= StartTime + 60

\* C13 (Spec): the answer to a fetch is decided in this order.  On arrival:
\* 429 if the client's view quota is used up, whatever the token, the record
\* and the hash.  Else, on reading the record: 404 if no record has the
\* token; 410 if the record's status is not active.  Else, on the record as
\* read: 410 if its expiresAt is before now; else 410 if its currentViews
\* has reached maxViews; else 401 if it is encrypted and the hash does not
\* match; else the request succeeds (HEAD: 200; GET: the payload is fetched).
C13_OutcomeOrder ==
  [][\A p \in Viewers : StepOf(p) =>
       LET v == view[p]
           answer == view'[p]
           is(code) == answer.pc = "done" /\ answer.code = code
       IN  CASE v.pc \in {"idle", "done"} ->
                  IF /\ now < rateLimits["view"].start + 60
                     /\ rateLimits["view"].count >= 16
                    THEN is(429) ELSE answer.pc = "find"
             [] v.pc = "find" ->
                  IF v.token \notin DOMAIN collection THEN is(404)
                  ELSE IF collection[v.token].Status # "active" THEN is(410)
                  ELSE answer.pc = "check"
             [] v.pc = "check" ->
                  IF v.metadata.ExpiresAt < now THEN is(410)
                  ELSE IF \E m \in v.metadata.MaxViews : v.metadata.CurrentViews >= m
                    THEN is(410)
                  ELSE IF v.metadata.IsEncrypted /\ Mismatch(v.metadata, answer.hash)
                    THEN is(401)
                  ELSE IF v.method = "HEAD" THEN is(200)
                  ELSE answer.pc \in {"download", "update"}
             [] OTHER -> answer.code \in {0, 200, 500}
    ]_vars
\* requests for an encrypted record that has expired were answered 410 (not
\* 401) and, the quota used up, 429
C13_Witness ==
  \E p, q \in Viewers :
    /\ 1 \in DOMAIN collection
    /\ collection[1].IsEncrypted
    /\ collection[1].Status = "expired"
    /\ view[p].pc = "done" /\ view[p].code = 410
    /\ view[q].pc = "done" /\ view[q].code = 429

\* C14 (as stated; SpecLife): 404 is answered only for tokens that no
\* upload ever returned, also after cleanups have run.
C14_Original ==
  [][\A p \in Viewers :
       (Answers(p) /\ view'[p].code = 404) => view[p].token \notin DOMAIN accepted
    ]_vars
\* C14 (amended; SpecLife): 404 is answered exactly when no record of the
\* token is stored as the request looks for it: the token was never
\* returned by an upload, or its record has been deleted.  While the expired
\* record of a token is stored, a request that finds it is answered 410, and
\* 410 is answered only for tokens that an upload returned.
C14_GoneWhileStored ==
  [][\A p \in Viewers : Answers(p) =>
       LET t == view[p].token
           answer == view'[p]
       IN  /\ answer.code = 404 <=> (view[p].pc = "find" /\ t \notin DOMAIN collection)
           /\ (/\ view[p].pc = "find"
               /\ t \in DOMAIN collection
               /\ collection[t].Status = "expired") => answer.code = 410
           /\ answer.code = 410 => t \in DOMAIN accepted
    ]_vars
\* a token that an upload returned is answered 404 after a cleanup has
\* deleted its record
C14_Witness ==
  /\ 1 \in DOMAIN accepted
  /\ 1 \notin DOMAIN collection
  /\ cleanup.pc = "done" /\ cleanup.code = 200
  /\ view["v1"].pc = "done" /\ view["v1"].code = 404

\* C15 (SpecLife): a record leaves the collection only in the DeleteMany
\* step of a cleanup, and only if its stored status is expired at that step;
\* no step of an upload or of a view removes a record, and no step removes a
\* record that is active, however views and cleanups interleave.
C15_DeletedOnlyExpired ==
  [][\A t \in DOMAIN collection : t \notin DOMAIN collection' =>
       /\ cleanup.pc = "delete"
       /\ cleanup'.pc = "promoteTime"
       /\ collection[t].Status = "expired"
       /\ view' = view /\ upload' = upload
    ]_vars
\* a cleanup has deleted the record while a view that had read it as active
\* was in flight
C15_Witness ==
  /\ 1 \in DOMAIN accepted
  /\ 1 \notin DOMAIN collection
  /\ cleanup.metadataDeletedCount = 1
  /\ view["v1"].pc \in {"check", "download", "update"}

\* C16 (as stated; SpecLife): when a cleanup deletes the record of a payload
\* held by the bucket, the blob is no longer in the bucket: the cleanup has
\* deleted it before.
C16_Original ==
  [][\A t \in DOMAIN collection :
       (t \notin DOMAIN collection' /\ collection[t].FileID # 0) =>
          collection[t].FileID \notin DOMAIN bucket'
    ]_vars

\* C17 (as stated; SpecUpload): every stored record has a maxViews, and it
\* is at least 1.
C17_Original ==
  \A t \in DOMAIN collection :
    /\ collection[t].MaxViews # {}
    /\ \A m \in collection[t].MaxViews : m >= 1

\* the payload locators of a record
HasInline(doc) == doc.FileData # EmptyString
HasBlobId(doc) == doc.FileID # 0

\* C18 (as stated; SpecTrip): every stored record has exactly one of the
\* two locators, inline data or a blob id; the locators of a stored record
\* never change; a fetch decodes the inline data of a record that has
\* inline data and reads the bucket for one that has a blob id; a cleanup
\* calls the bucket only for a record that has a blob id.
C18_Original ==
  /\ [](\A t \in DOMAIN collection :
          HasInline(collection[t]) # HasBlobId(collection[t]))
  /\ [][/\ \A t \in DOMAIN collection \cap DOMAIN collection' :
             /\ collection'[t].FileData = collection[t].FileData
             /\ collection'[t].FileID = collection[t].FileID
        /\ \A p \in Viewers :
             /\ (view[p].pc = "check" /\ view'[p].pc = "update") =>
                  HasInline(view[p].metadata) /\ ~HasBlobId(view[p].metadata)
             /\ view'[p].pc = "download" =>
                  HasBlobId(view[p].metadata) /\ ~HasInline(view[p].metadata)
        /\ bucket' # bucket =>
             \/ upload' # upload
             \/ cleanup.pc = "purge" /\ HasBlobId(Head(cleanup.expiredFiles))
       ]_vars

\* C19 (SpecDB): the assignment of the handles happens at most once; once
\* mongoClient is set, no call of GetDB connects again and none changes
\* mongoClient, collection or bucket; every call that returns without an
\* error returns the one collection and bucket that are set.
C19_InitializedOnce ==
  /\ [](/\ db.inits <= 1
        /\ \A p \in Viewers :
             (db.calls[p].pc = "returned" /\ ~db.calls[p].err) =>
                /\ db.mongoClient # 0
                /\ db.calls[p].collection = db.collection
                /\ db.calls[p].bucket = db.bucket
                /\ db.calls[p].collection # 0 /\ db.calls[p].bucket # 0)
  /\ [][db.mongoClient # 0 =>
          /\ db'.mongoClient = db.mongoClient
          /\ db'.collection = db.collection
          /\ db'.bucket = db.bucket
          /\ db'.connects = db.connects
       ]_vars
\* after an attempt that failed, the handles were set once and every
\* goroutine has got them from its second call
C19_Witness ==
  /\ db.connects >= 2
  /\ db.inits = 1
  /\ \A p \in Viewers :
       /\ db.calls[p].pc = "returned" /\ db.calls[p].n >= 2
       /\ ~db.calls[p].err
       /\ db.calls[p].collection = db.collection

\* C20 (as stated; SpecRace): under concurrent fetches of one token, a
\* stored record whose currentViews has reached or passed its maxViews has
\* status expired, in every state between two database operations.
C20_Original ==
  \A t \in DOMAIN collection : \A m \in collection[t].MaxViews :
    collection[t].CurrentViews >= m => collection[t].Status = "expired"

\* C21 (Spec): no lost updates.  Of every stored record, currentViews is
\* the number of fetches of its token that took the view-recording step
\* (served counts them), whatever the interleaving of the fetches; and no
\* step makes the currentViews of a record that stays stored smaller.
C21_NoLostUpdates ==
  /\ [](\A t \in DOMAIN collection : collection[t].CurrentViews = served[t])
  /\ [][\A t \in DOMAIN collection \cap DOMAIN collection' :
          collection'[t].CurrentViews >= collection[t].CurrentViews]_vars
\* two fetches of a record with maxViews = 1 were in flight together: both
\* passed the view limit on the count 0 and both were recorded
C21_Witness ==
  /\ 1 \in DOMAIN collection
  /\ collection[1].MaxViews = {1}
  /\ served[1] = 2
  /\ collection[1].CurrentViews = 2
  /\ \A p \in Viewers : view[p].pc = "done" /\ view[p].code = 200
                        /\ view[p].body # <<>>

\* a record that is active although one of its two limits is reached at time t
Overdue(doc, t) ==
  /\ doc.Status = "active"
  /\ doc.ExpiresAt < t \/ \E m \in doc.MaxViews : doc.CurrentViews >= m
\* the step is one of the two UpdateMany of a cleanup
Promotes == cleanup.pc \in {"promoteTime", "promoteViews"}

\* C22 (SpecSweep, where nothing runs beside the cleanup and the clock
\* stands still): when a cleanup has answered 200, no stored record is
\* active with expiresAt before the cleanup's time or with currentViews >=
\* maxViews; and each of its two promotion steps leaves the bucket and the
\* set of records as they are and changes of a record at most the status,
\* to expired, and only if the record was active with one of its limits
\* reached.
C22_SweepPromotes ==
  /\ []((cleanup.pc = "done" /\ cleanup.code = 200) =>
          \A t \in DOMAIN collection : ~Overdue(collection[t], now))
  /\ [][Promotes =>
          IF bucket' = bucket /\ DOMAIN collection' = DOMAIN collection
            THEN \A t \in DOMAIN collection :
                   IF collection'[t] = collection[t] THEN TRUE
                   ELSE /\ Overdue(collection[t], now)
                        /\ collection'[t] = [collection[t] EXCEPT !.Status = "expired"]
          ELSE FALSE
       ]_vars
\* a first cleanup has answered 200 after it promoted two records, one for
\* its time and one for its views
C22_Witness ==
  /\ cleanup.pc = "done" /\ cleanup.code = 200
  /\ Len(sweeps.log) = 1 /\ sweeps.log[1].promoted = 2
  /\ \E t, u \in DOMAIN collection :
       /\ collection[t].Status = "expired" /\ collection[u].Status = "expired"
       /\ collection[t].ExpiresAt < now /\ collection[t].CurrentViews = 0
       /\ ~(collection[u].ExpiresAt < now)
       /\ \E m \in collection[u].MaxViews : collection[u].CurrentViews >= m

\* C23 (as stated; SpecDB): a goroutine that holds connectionMutex is not
\* in a call to the backing store: it is not at mongo.Connect and not at
\* client.Ping.
C23_Original ==
  \A p \in Viewers :
    db.mutex = p => db.calls[p].pc \notin {"connect", "ping"}

\* the currentViews of the stored records
Counts(coll) == [t \in DOMAIN coll |-> coll[t].CurrentViews]

Begins == upload.pc \in {"idle", "done"} /\ upload' # upload
\* the step answers an upload request with a rejection
Rejects == upload'.pc = "done" /\ upload'.code \in {400, 429} /\ upload' # upload

\* C25 (SpecUpload): a request that arrives when the quota is used up is
\* answered 429; no request of an unknown content type or with an
\* undecodable payload gets past the validation, into the upload in progress
\* or into a stored record; and the step that answers a request 429 or 400
\* is its first, returns no token, generates none, and leaves the collection
\* and the bucket as they are.
C25_RejectedCreate ==
  /\ [](/\ upload.pc \in {"store", "insert"} =>
             upload.req.FileType \in validTypes /\ upload.req.FileData # Malformed
        /\ \A t \in DOMAIN collection :
             collection[t].FileType \in validTypes /\ collection[t].FileData # Malformed)
  /\ [][IF Begins /\ rateLimits["upload"].count >= uploadLimit
             THEN upload' = UploadDone(429, 0)
           ELSE TRUE]_vars
  /\ [][IF Rejects
             THEN /\ upload.pc \in {"idle", "done"}
                  /\ upload'.token = 0 /\ issued' = issued /\ accepted' = accepted
                  /\ collection' = collection /\ bucket' = bucket
           ELSE TRUE]_vars
\* after one upload was stored and another request was rejected with 400,
\* a third is rejected with 429: the stores hold the first upload only
C25_Witness ==
  /\ upload.pc = "done" /\ upload.code = 429
  /\ rateLimits["upload"].count = uploadLimit
  /\ issued = 1 /\ DOMAIN collection = {1} /\ DOMAIN accepted = {1}
  /\ DOMAIN bucket \subseteq {1}

\* one of the two limits of the stored record of token t is reached
LimitReached(t) ==
  /\ t \in DOMAIN collection
  /\ \/ collection[t].ExpiresAt < now
     \/ \E m \in collection[t].MaxViews : collection[t].CurrentViews >= m

\* C26 (as stated; SpecLive): a stored record of which a limit is reached
\* is eventually in the collection no more, and its blob in the bucket no
\* more.
C26_Original ==
  \A t \in Tokens :
    LimitReached(t) ~> (t \notin DOMAIN collection /\ t \notin DOMAIN bucket)
\* C26, of the record alone: it is eventually in the collection no more
C26_RecordRemoved ==
  \A t \in Tokens : LimitReached(t) ~> (t \notin DOMAIN collection)

\* the step is the Find of a cleanup that found something
Scans == cleanup.pc \in {"idle", "done"} /\ cleanup'.pc = "purge"

\* C27 (SpecOrphan): what the Find of a cleanup returns are the locators of
\* records that are stored with status expired when it runs; and a step that
\* removes a blob from the bucket is a turn of the cleanup's loop on one of
\* those locators: the blob is that of an upload whose record was inserted,
\* and the record is by then expired or deleted.  So the blob of an upload
\* whose InsertOne failed, and the blob of an active record, stay.
C27_BlobsOfExpiredOnly ==
  /\ [][IF Scans
          THEN \A i \in 1 .. Len(cleanup'.expiredFiles) :
                 \E t \in DOMAIN collection :
                   /\ collection[t].Status = "expired"
                   /\ Locator(collection[t]) = cleanup'.expiredFiles[i]
          ELSE TRUE]_vars
  /\ [][\A id \in DOMAIN bucket :
          IF id \in DOMAIN bucket' THEN TRUE
          ELSE /\ cleanup.pc = "purge"
               /\ Head(cleanup.expiredFiles).FileID = id
               /\ id \in DOMAIN accepted
               /\ id \in DOMAIN collection => collection[id].Status = "expired"
       ]_vars
\* the first upload wrote its blob and failed to insert its record, the
\* second was stored, expired and swept with its blob: the first blob is
\* still in the bucket when the cleanup answers
C27_Witness ==
  /\ upload.pc = "done"
  /\ cleanup.pc = "done" /\ cleanup.code = 200 /\ cleanup.gridfsDeletedCount = 1
  /\ 1 \in DOMAIN bucket /\ 1 \notin DOMAIN accepted /\ 1 \notin DOMAIN collection
  /\ 2 \in DOMAIN accepted /\ 2 \notin DOMAIN bucket /\ 2 \notin DOMAIN collection

====
